---------------------------- MODULE Spec2Model ----------------------------
(***************************************************************************)
(* The streaming client of ai-contract-generator: the reconnecting         *)
(* WebSocket hook (frontend/src/hooks/useWebSocket.ts) and the component   *)
(* that drives it (frontend/src/App.tsx, and the earlier revision of the   *)
(* component, which also offers a Reconnect button).                       *)
(*                                                                         *)
(* The browser's WebSocket is the environment.  A socket object is         *)
(* CONNECTING, OPEN, CLOSING (close() was called) or CLOSED (it failed:    *)
(* the error event was dispatched and the close event is still to come);   *)
(* NONE says that no such object exists (never created, or its close event *)
(* was dispatched, after which none of its handlers runs again).           *)
(***************************************************************************)
EXTENDS Integers, Sequences, FiniteSets, TLC

\* How many socket objects may exist at once (ids are reused once an object
\* is gone and the timer its close scheduled has fired or was cleared).
MaxSockets == 2

SockIds == 1..MaxSockets

\* How many chunks the hook may hold staged.
MaxChunks == 2

\* How many characters the buffer-draining component (part_001) may hold
\* shown and pending together.
MaxLen == 5

\* How long the pending strings given to the token scanner may be.
MaxScanLen == 4

\* wsRef.current = null, reconnectTimeoutRef.current = null
Null == 0

\* The url argument of useWebSocket: absent, accepted by the WebSocket
\* constructor, or rejected by it (the constructor throws).
NoUrl == "none"
GoodUrl == "wss://ok"
BadUrl == "bad"
Urls == {NoUrl, GoodUrl, BadUrl}

\* The prompt the component starts with, and the prompts the user may type; a
\* message callback is identified by the prompt its closure captured.
InitialPrompt == "tos"
Prompts == {"", InitialPrompt}
NoHandler == "none"

\* Strings are sequences of one-character strings.
EmptyStr == <<>>

\* What a frame's content and error fields may hold; an absent field and
\* an empty one read the same (content || "", error || default).
Contents == {EmptyStr, <<"a">>}
ErrorTexts == {"", "quota exceeded"}

ConnectionErrorMsg == "Connection error. Please try again."
ConnectFailedMsg == "Failed to connect to server"
NoError == "null"
EnterPromptMsg == "Please enter a prompt"
NotConnectedMsg == "Not connected to server. Retrying..."
SendFailedMsg == "Failed to send request to server. Please try again."
DefaultGenerationError == "An error occurred during generation"
NoContentMsg == "No content to export"
ExportFormats == {"word", "pdf"}

VARIABLES
  url,                  \* useWebSocket(url)
  status,               \* useState<WebSocketStatus>
  error,                \* the hook's useState<string | null>
  wsRef,                \* wsRef.current: a socket id or Null
  reconnectTimeoutRef,  \* reconnectTimeoutRef.current: a timer id or Null
  readyState,           \* per socket object
  onmessage,            \* per socket object: the installed callback
  requested,            \* per socket object: a generate request was transmitted on it
  timers,               \* the reconnect timers that are set and have not fired
  chunksRef,            \* chunksRef.current: the staged chunks
  mounted,              \* the component is mounted
  prompt,               \* the component's prompt state
  isGenerating,         \* the component's generation state
  appError,             \* the component's error state
  success,
  generatedContent,
  displayContent,       \* what the component shows
  displayIndexRef,      \* displayIndexRef.current (App.tsx): the typing cursor
  typingInterval,       \* the interval of the typing effect is set
  pendingBuffer,        \* part_001: received and not yet shown
  hasReceivedFirstChunk, \* part_001
  cycle,                \* the frames seen on the wire since the last start
  lastOp                \* what the last step did that its caller can observe

vars == <<url, status, error, wsRef, reconnectTimeoutRef, readyState, onmessage,
          requested, timers, chunksRef, mounted, prompt, isGenerating, appError,
          success, generatedContent, displayContent, displayIndexRef,
          typingInterval, pendingBuffer, hasReceivedFirstChunk, cycle, lastOp>>

appVars == <<isGenerating, appError, success, generatedContent, displayContent,
             displayIndexRef, typingInterval, pendingBuffer, hasReceivedFirstChunk>>

\* The state of the typing effect of App.tsx
typingVars == <<displayContent, displayIndexRef, typingInterval>>

\* ---------------------------------------------------------------------
\* Strings

Take(str, n) == SubSeq(str, 1, n)

Drop(str, n) == SubSeq(str, n + 1, Len(str))

WordChars == {"a", "b", "h", "t", "m", "l", "0", "_"}

WhiteSpace == {" ", "\n", "\t"}

\* The backtick character (a TLA+ string cannot hold one)
Backtick == "BACKTICK"

\* The three characters from position p on are backticks.
FenceAt(str, p) ==
  /\ p >= 1
  /\ p + 2 <= Len(str)
  /\ str[p] = Backtick /\ str[p + 1] = Backtick /\ str[p + 2] = Backtick

\* ^ and $ under the m flag
LineStart(str, p) == p = 1 \/ str[p - 1] = "\n"

LineEnd(str, p) == p > Len(str) \/ str[p] = "\n"

RECURSIVE SkipWord(_, _)
SkipWord(str, p) ==
  IF p <= Len(str) /\ str[p] \in WordChars THEN SkipWord(str, p + 1) ELSE p

SkipNewline(str, p) == IF p <= Len(str) /\ str[p] = "\n" THEN p + 1 ELSE p

\* content.replace(/^FENCE[\w]*\n?/gm, ''), FENCE being three backticks
RECURSIVE RemoveOpeningFences(_, _)
RemoveOpeningFences(str, p) ==
  IF p > Len(str) THEN <<>>
  ELSE IF LineStart(str, p) /\ FenceAt(str, p)
       THEN RemoveOpeningFences(str, SkipNewline(str, SkipWord(str, p + 3)))
       ELSE <<str[p]>> \o RemoveOpeningFences(str, p + 1)

\* .replace(/\n?FENCE$/gm, '')
RECURSIVE RemoveClosingFences(_, _)
RemoveClosingFences(str, p) ==
  IF p > Len(str) THEN <<>>
  ELSE IF str[p] = "\n" /\ FenceAt(str, p + 1) /\ LineEnd(str, p + 4)
       THEN RemoveClosingFences(str, p + 4)
       ELSE IF FenceAt(str, p) /\ LineEnd(str, p + 3)
            THEN RemoveClosingFences(str, p + 3)
            ELSE <<str[p]>> \o RemoveClosingFences(str, p + 1)

\* .replace(/FENCE\n?/g, '')
RECURSIVE RemoveFences(_, _)
RemoveFences(str, p) ==
  IF p > Len(str) THEN <<>>
  ELSE IF FenceAt(str, p)
       THEN RemoveFences(str, SkipNewline(str, p + 3))
       ELSE <<str[p]>> \o RemoveFences(str, p + 1)

\* .trim()
RECURSIVE TrimStart(_)
TrimStart(str) ==
  IF str # <<>> /\ Head(str) \in WhiteSpace THEN TrimStart(Tail(str)) ELSE str

RECURSIVE TrimEnd(_)
TrimEnd(str) ==
  IF str # <<>> /\ str[Len(str)] \in WhiteSpace
  THEN TrimEnd(Take(str, Len(str) - 1))
  ELSE str

Trim(str) == TrimEnd(TrimStart(str))

cleanMarkdownFences(content) ==
  Trim(RemoveFences(RemoveClosingFences(RemoveOpeningFences(content, 1), 1), 1))

\* chunksRef.current.join('')
RECURSIVE Join(_)
Join(chunks) == IF chunks = <<>> THEN <<>> ELSE Head(chunks) \o Join(Tail(chunks))

\* ---------------------------------------------------------------------
\* Frames: event.data of a message event

Frame(type, content, last, err) ==
  [type |-> type, content |-> content, is_last |-> last, error |-> err]

Frames ==
  {Frame(t, EmptyStr, FALSE, "") : t \in {"malformed", "start", "complete"}}
    \cup {Frame("chunk", c, l, "") : c \in Contents, l \in BOOLEAN}
    \cup {Frame("content", c, FALSE, "") : c \in Contents}
    \cup {Frame("error", EmptyStr, FALSE, e) : e \in ErrorTexts}

\* What the content frames of a generation may carry: nothing, text, a tag,
\* and text in a markdown fence (chunk frames carry nothing or text)
StreamContents ==
  {EmptyStr, <<"a">>, <<"<", "b", ">">>, <<Backtick, Backtick, Backtick, "\n", "a">>}

\* What the chunk frames of a chunked generation may carry: nothing, and two
\* different texts
ChunkContents == {EmptyStr, <<"a">>, <<"b">>}

StreamFrames ==
  {Frame(t, EmptyStr, FALSE, "") : t \in {"malformed", "start", "complete"}}
    \cup {Frame("chunk", c, l, "") : c \in Contents, l \in BOOLEAN}
    \cup {Frame("content", c, FALSE, "") : c \in StreamContents}
    \cup {Frame("error", EmptyStr, FALSE, e) : e \in ErrorTexts}

\* The frames of chunked generations
StagingFrames ==
  {Frame(t, EmptyStr, FALSE, "") : t \in {"malformed", "start", "complete", "error"}}
    \cup {Frame("chunk", c, l, "") : c \in ChunkContents, l \in BOOLEAN}
    \cup {Frame("content", c, FALSE, "") : c \in Contents}

\* ---------------------------------------------------------------------
\* Socket objects

\* An id no object and no pending timer uses.
Free(s, tm) == readyState[s] = "NONE" /\ s \notin tm

HasFree(tm) == \E s \in SockIds : Free(s, tm)

NewSocket(tm) ==
  CHOOSE s \in SockIds : Free(s, tm) /\ \A r \in SockIds : Free(r, tm) => s <= r

\* WebSocket.close(): CONNECTING and OPEN become CLOSING, otherwise no effect.
CloseCall(rs, s) ==
  IF rs[s] \in {"CONNECTING", "OPEN"} THEN [rs EXCEPT ![s] = "CLOSING"] ELSE rs

\* A call of a collaborator (an exporter, the conversation history)
Call(fn, arg) == [fn |-> fn, arg |-> arg]

\* What the last step was, and the collaborators it called
Step(kind, callback, calls) == [frame |-> kind, callback |-> callback, calls |-> calls]

\* What the last step was, when it was a message event: event.data did not
\* parse ("malformed"), was a chunk that is only staged ("staged") or was any
\* other frame ("parsed"); and the callback that was invoked (NoHandler: none).
Delivery(kind, callback) == Step(kind, callback, <<>>)

NoDelivery == Delivery("", NoHandler)

\* The frames seen on the wire since the last start, as far as they follow
\* start, chunk, ..., chunk(is_last), complete ("started", "chunking",
\* "chunked", "chunkedDone") or start, content, complete ("started", "single",
\* "singleDone"), with the content they carried, concatenated; "other" when
\* they follow neither, "idle" before the first start.  And the last frame.
WireCycle(phase, text, frame) == [phase |-> phase, text |-> text, frame |-> frame]

NoFrame == Frame("none", EmptyStr, FALSE, "")

NoCycle == WireCycle("idle", EmptyStr, NoFrame)

\* The wire is not observed (the initial state of a specification switches
\* the observation on)
Unobserved == WireCycle("off", EmptyStr, NoFrame)

Observe(c, data) ==
  CASE data.type = "start" -> WireCycle("started", EmptyStr, data)
    [] data.type = "chunk" /\ c.phase \in {"started", "chunking"} ->
         WireCycle(IF data.is_last THEN "chunked" ELSE "chunking", c.text \o data.content,
                   data)
    [] data.type = "content" /\ c.phase = "started" -> WireCycle("single", data.content, data)
    [] data.type = "complete" /\ c.phase = "chunked" -> WireCycle("chunkedDone", c.text, data)
    [] data.type = "complete" /\ c.phase = "single" -> WireCycle("singleDone", c.text, data)
    [] OTHER -> WireCycle(IF c.phase = "idle" THEN "idle" ELSE "other", EmptyStr, data)

\* ---------------------------------------------------------------------
\* The hook

\* new WebSocket(url) returns a socket (it throws on a url it rejects)
ConnectOpens == url = GoodUrl

\* connect(), called with the timers tm outstanding
connect(tm) ==
  CASE url = NoUrl ->
         UNCHANGED <<status, error, wsRef, readyState>>
    [] url = BadUrl ->
         /\ status' = "error"
         /\ error' = ConnectFailedMsg
         /\ UNCHANGED <<wsRef, readyState>>
    [] OTHER ->
         LET ws == NewSocket(tm) IN
         /\ status' = "connecting"
         /\ error' = NoError
         /\ readyState' = [readyState EXCEPT ![ws] = "CONNECTING"]
         /\ wsRef' = ws

\* connect() needs an unused socket id when it opens a socket.
CanConnect(tm) == ConnectOpens => HasFree(tm)

\* disconnect()
disconnect ==
  /\ timers' = timers \ {reconnectTimeoutRef}
  /\ readyState' = IF wsRef # Null THEN CloseCall(readyState, wsRef) ELSE readyState
  /\ wsRef' = Null
  /\ status' = "disconnected"
  /\ chunksRef' = <<>>
  /\ UNCHANGED <<error, reconnectTimeoutRef>>

\* sendMessage that tests the handle and not the socket's readyState
sendMessage_IgnoresReadyState == wsRef # Null

\* sendMessage(message): its return value
sendMessage == wsRef # Null /\ readyState[wsRef] = "OPEN"

\* onMessage(callback): installs the callback on the current socket, if any
onMessage(om, ref, callback) ==
  IF ref # Null THEN [om EXCEPT ![ref] = callback] ELSE om

\* ws.onopen
OnOpen(s) ==
  /\ readyState[s] = "CONNECTING"
  /\ readyState' = [readyState EXCEPT ![s] = "OPEN"]
  /\ status' = "connected"
  /\ error' = NoError
  /\ chunksRef' = <<>>
  /\ lastOp' = NoDelivery
  /\ UNCHANGED cycle
  /\ UNCHANGED <<url, wsRef, reconnectTimeoutRef, onmessage, requested, timers,
                 mounted, prompt, appVars>>

\* ws.onerror that releases the handle and schedules the reconnect itself
OnError_Reconnects(s) ==
  /\ readyState[s] \in {"CONNECTING", "OPEN", "CLOSING"}
  /\ readyState' = [readyState EXCEPT ![s] = "CLOSED"]
  /\ status' = "error"
  /\ error' = ConnectionErrorMsg
  /\ wsRef' = Null
  /\ reconnectTimeoutRef' = s
  /\ timers' = timers \cup {s}
  /\ lastOp' = NoDelivery
  /\ UNCHANGED cycle
  /\ UNCHANGED <<url, onmessage, requested, chunksRef, mounted, prompt, appVars>>

\* ws.onerror: the browser has set readyState to CLOSED before the event
OnError(s) ==
  /\ readyState[s] \in {"CONNECTING", "OPEN", "CLOSING"}
  /\ readyState' = [readyState EXCEPT ![s] = "CLOSED"]
  /\ status' = "error"
  /\ error' = ConnectionErrorMsg
  /\ lastOp' = NoDelivery
  /\ UNCHANGED cycle
  /\ UNCHANGED <<url, wsRef, reconnectTimeoutRef, onmessage, requested, timers,
                 chunksRef, mounted, prompt, appVars>>

\* ws.onclose: a failed handshake closes through the error event
OnClose(s) ==
  /\ readyState[s] \in {"OPEN", "CLOSING", "CLOSED"}
  /\ readyState' = [readyState EXCEPT ![s] = "NONE"]
  /\ onmessage' = [onmessage EXCEPT ![s] = NoHandler]
  /\ requested' = [requested EXCEPT ![s] = FALSE]
  /\ status' = "disconnected"
  /\ wsRef' = Null
  /\ reconnectTimeoutRef' = s
  /\ timers' = timers \cup {s}
  /\ lastOp' = NoDelivery
  /\ UNCHANGED cycle
  /\ UNCHANGED <<url, error, chunksRef, mounted, prompt, appVars>>

\* The callback of the setTimeout of ws.onclose
TimerFire(t) ==
  /\ t \in timers
  /\ timers' = timers \ {t}
  /\ connect(timers \ {t})
  /\ lastOp' = NoDelivery
  /\ UNCHANGED cycle
  /\ UNCHANGED <<url, reconnectTimeoutRef, onmessage, requested, chunksRef,
                 mounted, prompt, appVars>>

\* ---------------------------------------------------------------------
\* The component

\* The typing effect of App.tsx, run with generatedContent = content: any
\* interval is cleared, and one is set if the cursor is short of the content
TypingEffect(content) ==
  IF content = EmptyStr
  THEN /\ displayIndexRef' = 0
       /\ displayContent' = EmptyStr
       /\ typingInterval' = FALSE
  ELSE /\ typingInterval' = (displayIndexRef < Len(content))
       /\ UNCHANGED <<displayIndexRef, displayContent>>

\* setGeneratedContent(content) and the render after it: the typing effect
\* runs if the value changed (its dependency) in a mounted component
setGeneratedContent(content) ==
  /\ generatedContent' = content
  /\ IF content # generatedContent /\ mounted
     THEN TypingEffect(content)
     ELSE UNCHANGED typingVars

\* The callback with an error branch that shows the default message whatever
\* the frame carries
Callback_ErrorAlwaysDefault(message) ==
  /\ CASE message.type = "start" ->
           /\ isGenerating' = TRUE
           /\ appError' = NoError
           /\ success' = FALSE
           /\ generatedContent' = EmptyStr
           /\ displayContent' = EmptyStr
           /\ displayIndexRef' = 0
           /\ typingInterval' = FALSE
      [] message.type = "chunk" ->
           /\ setGeneratedContent(cleanMarkdownFences(generatedContent \o message.content))
           /\ UNCHANGED <<isGenerating, appError, success>>
      [] message.type = "content" ->
           /\ setGeneratedContent(cleanMarkdownFences(message.content))
           /\ UNCHANGED <<isGenerating, appError, success>>
      [] message.type = "complete" ->
           /\ isGenerating' = FALSE
           /\ success' = TRUE
           /\ setGeneratedContent(cleanMarkdownFences(generatedContent))
           /\ UNCHANGED appError
      [] message.type = "error" ->
           /\ isGenerating' = FALSE
           /\ appError' = DefaultGenerationError
           /\ UNCHANGED <<success, generatedContent, typingVars>>
      [] OTHER -> UNCHANGED <<isGenerating, appError, success, generatedContent, typingVars>>
  /\ UNCHANGED <<pendingBuffer, hasReceivedFirstChunk>>

\* The callback with an error branch that clears the content
Callback_ErrorClearsContent(message) ==
  /\ CASE message.type = "start" ->
           /\ isGenerating' = TRUE
           /\ appError' = NoError
           /\ success' = FALSE
           /\ generatedContent' = EmptyStr
           /\ displayContent' = EmptyStr
           /\ displayIndexRef' = 0
           /\ typingInterval' = FALSE
      [] message.type = "chunk" ->
           /\ setGeneratedContent(cleanMarkdownFences(generatedContent \o message.content))
           /\ UNCHANGED <<isGenerating, appError, success>>
      [] message.type = "content" ->
           /\ setGeneratedContent(cleanMarkdownFences(message.content))
           /\ UNCHANGED <<isGenerating, appError, success>>
      [] message.type = "complete" ->
           /\ isGenerating' = FALSE
           /\ success' = TRUE
           /\ setGeneratedContent(cleanMarkdownFences(generatedContent))
           /\ UNCHANGED appError
      [] message.type = "error" ->
           /\ isGenerating' = FALSE
           /\ appError' = IF message.error = "" THEN DefaultGenerationError ELSE message.error
           /\ setGeneratedContent(EmptyStr)
           /\ UNCHANGED success
      [] OTHER -> UNCHANGED <<isGenerating, appError, success, generatedContent, typingVars>>
  /\ UNCHANGED <<pendingBuffer, hasReceivedFirstChunk>>

\* The callback the component passes to onMessage
Callback(message) ==
  /\ CASE message.type = "start" ->
           /\ isGenerating' = TRUE
           /\ appError' = NoError
           /\ success' = FALSE
           /\ generatedContent' = EmptyStr
           /\ displayContent' = EmptyStr
           /\ displayIndexRef' = 0
           /\ typingInterval' = FALSE
      [] message.type = "chunk" ->
           /\ setGeneratedContent(cleanMarkdownFences(generatedContent \o message.content))
           /\ UNCHANGED <<isGenerating, appError, success>>
      [] message.type = "content" ->
           /\ setGeneratedContent(cleanMarkdownFences(message.content))
           /\ UNCHANGED <<isGenerating, appError, success>>
      [] message.type = "complete" ->
           /\ isGenerating' = FALSE
           /\ success' = TRUE
           /\ setGeneratedContent(cleanMarkdownFences(generatedContent))
           /\ UNCHANGED appError
      [] message.type = "error" ->
           /\ isGenerating' = FALSE
           /\ appError' = IF message.error = "" THEN DefaultGenerationError ELSE message.error
           /\ UNCHANGED <<success, generatedContent, typingVars>>
      [] OTHER -> UNCHANGED <<isGenerating, appError, success, generatedContent, typingVars>>
  /\ UNCHANGED <<pendingBuffer, hasReceivedFirstChunk>>

\* A history that also takes what a content message delivers
HistoryCalls_SavesOnContent(message, captured) ==
  IF message.type \in {"content", "complete"}
  THEN <<Call("setConversations",
              [prompt |-> captured, contract |-> cleanMarkdownFences(generatedContent)])>>
  ELSE <<>>

\* What the callback, invoked with message, hands to the conversation
\* history: on complete, the prompt its closure captured and the cleaned
\* content
HistoryCalls(message, captured) ==
  IF message.type = "complete"
  THEN <<Call("setConversations",
              [prompt |-> captured, contract |-> cleanMarkdownFences(generatedContent)])>>
  ELSE <<>>

\* The onmessage handler without its try/catch around JSON.parse: data that
\* does not parse reaches the callback as an error
MessageHandler_NoCatch(s, data) ==
  CASE data.type = "malformed" ->
         /\ Callback(Frame("error", EmptyStr, FALSE, ""))
         /\ lastOp' = Delivery("malformed", onmessage[s])
         /\ UNCHANGED chunksRef
    [] data.type = "chunk" /\ data.is_last ->
         /\ Callback(Frame("content", Join(Append(chunksRef, data.content)), FALSE, ""))
         /\ chunksRef' = <<>>
         /\ lastOp' = Step("parsed", onmessage[s],
                           HistoryCalls(Frame("content", Join(Append(chunksRef, data.content)),
                                              FALSE, ""),
                                        onmessage[s]))
    [] data.type = "chunk" /\ ~data.is_last ->
         /\ chunksRef' = Append(chunksRef, data.content)
         /\ lastOp' = Delivery("staged", NoHandler)
         /\ UNCHANGED appVars
    [] OTHER ->
         /\ Callback(data)
         /\ lastOp' = Step("parsed", onmessage[s], HistoryCalls(data, onmessage[s]))
         /\ UNCHANGED chunksRef

\* The onmessage handler that does not empty the staging list after the last
\* chunk
MessageHandler_KeepsStaged(s, data) ==
  CASE data.type = "malformed" ->
         /\ lastOp' = Delivery("malformed", NoHandler)
         /\ UNCHANGED <<chunksRef, appVars>>
    [] data.type = "chunk" /\ data.is_last ->
         /\ Callback(Frame("content", Join(Append(chunksRef, data.content)), FALSE, ""))
         /\ lastOp' = Step("parsed", onmessage[s],
                           HistoryCalls(Frame("content", Join(Append(chunksRef, data.content)),
                                              FALSE, ""),
                                        onmessage[s]))
         /\ UNCHANGED chunksRef
    [] data.type = "chunk" /\ ~data.is_last ->
         /\ chunksRef' = Append(chunksRef, data.content)
         /\ lastOp' = Delivery("staged", NoHandler)
         /\ UNCHANGED appVars
    [] OTHER ->
         /\ Callback(data)
         /\ lastOp' = Step("parsed", onmessage[s], HistoryCalls(data, onmessage[s]))
         /\ UNCHANGED chunksRef

\* The onmessage handler that onMessage installs, run on event.data = data
\* with the callback it closed over
MessageHandler(s, data) ==
  CASE data.type = "malformed" ->
         /\ lastOp' = Delivery("malformed", NoHandler)
         /\ UNCHANGED <<chunksRef, appVars>>
    [] data.type = "chunk" /\ data.is_last ->
         /\ Callback(Frame("content", Join(Append(chunksRef, data.content)), FALSE, ""))
         /\ chunksRef' = <<>>
         /\ lastOp' = Step("parsed", onmessage[s],
                           HistoryCalls(Frame("content", Join(Append(chunksRef, data.content)),
                                              FALSE, ""),
                                        onmessage[s]))
    [] data.type = "chunk" /\ ~data.is_last ->
         /\ chunksRef' = Append(chunksRef, data.content)
         /\ lastOp' = Delivery("staged", NoHandler)
         /\ UNCHANGED appVars
    [] OTHER ->
         /\ Callback(data)
         /\ lastOp' = Step("parsed", onmessage[s], HistoryCalls(data, onmessage[s]))
         /\ UNCHANGED chunksRef

\* A message event on socket s
OnMessageEvent(s, data) ==
  /\ readyState[s] = "OPEN"
  /\ requested[s]
  /\ data.type = "chunk" => Len(chunksRef) < MaxChunks
  /\ cycle' = IF cycle = Unobserved THEN cycle ELSE Observe(cycle, data)
  /\ IF onmessage[s] = NoHandler
     THEN /\ lastOp' = Delivery(IF data.type = "malformed" THEN "malformed" ELSE "parsed",
                                NoHandler)
          /\ UNCHANGED <<chunksRef, appVars>>
     ELSE MessageHandler(s, data)
  /\ UNCHANGED <<url, status, error, wsRef, reconnectTimeoutRef, readyState,
                 onmessage, requested, timers, mounted, prompt>>

\* A tick that stops the interval one character early
TypingTick_StopsBeforeLast ==
  /\ typingInterval
  /\ displayIndexRef' = displayIndexRef + 1
  /\ IF displayIndexRef + 1 < Len(generatedContent)
     THEN /\ displayContent' = Take(generatedContent, displayIndexRef + 1)
          /\ UNCHANGED typingInterval
     ELSE /\ typingInterval' = FALSE
          /\ UNCHANGED displayContent
  /\ lastOp' = NoDelivery
  /\ UNCHANGED <<url, status, error, wsRef, reconnectTimeoutRef, readyState,
                 onmessage, requested, timers, chunksRef, mounted, prompt,
                 isGenerating, appError, success, generatedContent, pendingBuffer,
                 hasReceivedFirstChunk, cycle>>

\* A tick of the interval the typing effect of App.tsx set
TypingTick ==
  /\ typingInterval
  /\ displayIndexRef' = displayIndexRef + 1
  /\ IF displayIndexRef + 1 <= Len(generatedContent)
     THEN /\ displayContent' = Take(generatedContent, displayIndexRef + 1)
          /\ UNCHANGED typingInterval
     ELSE /\ typingInterval' = FALSE
          /\ UNCHANGED displayContent
  /\ lastOp' = NoDelivery
  /\ UNCHANGED <<url, status, error, wsRef, reconnectTimeoutRef, readyState,
                 onmessage, requested, timers, chunksRef, mounted, prompt,
                 isGenerating, appError, success, generatedContent, pendingBuffer,
                 hasReceivedFirstChunk, cycle>>

\* ---------------------------------------------------------------------
\* The buffer-draining component (part_001) on the hook without chunk
\* staging (part_000)

\* indexOf that finds the last occurrence
IndexOf_Last(str, c) ==
  IF \E i \in 1..Len(str) : str[i] = c
  THEN (CHOOSE i \in 1..Len(str) : str[i] = c /\ \A j \in (i + 1)..Len(str) : str[j] # c) - 1
  ELSE -1

\* pending.indexOf(c): 0-based, -1 if c does not occur
IndexOf(str, c) ==
  IF \E i \in 1..Len(str) : str[i] = c
  THEN (CHOOSE i \in 1..Len(str) : str[i] = c /\ \A j \in 1..(i - 1) : str[j] # c) - 1
  ELSE -1

ScanResult(token, rest) == [token |-> token, rest |-> rest]

\* A scan that slices the rest one character too far
TokenTo_SkipsAfterTerminator(pending, terminator) ==
  LET endIdx == IndexOf(pending, terminator)
  IN  IF endIdx = -1
      THEN [token |-> <<pending[1]>>, rest |-> Drop(pending, 1)]
      ELSE [token |-> Take(pending, endIdx + 1), rest |-> Drop(pending, endIdx + 2)]

\* A scan that waits for the terminator instead of falling back to one
\* character
TokenTo_WaitsForTerminator(pending, terminator) ==
  LET endIdx == IndexOf(pending, terminator)
  IN  IF endIdx = -1
      THEN [token |-> EmptyStr, rest |-> pending]
      ELSE [token |-> Take(pending, endIdx + 1), rest |-> Drop(pending, endIdx + 1)]

\* The token that starts with pending[0] and ends with the first terminator,
\* or pending[0] alone if there is no terminator
TokenTo(pending, terminator) ==
  LET endIdx == IndexOf(pending, terminator)
  IN  IF endIdx = -1
      THEN ScanResult(<<pending[1]>>, Drop(pending, 1))
      ELSE ScanResult(Take(pending, endIdx + 1), Drop(pending, endIdx + 1))

getNextRenderableToken(pending) ==
  IF pending = EmptyStr THEN ScanResult(EmptyStr, EmptyStr)
  ELSE IF pending[1] = "<" THEN TokenTo(pending, ">")
  ELSE IF pending[1] = "&" THEN TokenTo(pending, ";")
  ELSE ScanResult(<<pending[1]>>, Drop(pending, 1))

\* The callback of part_001 is identified by the hasReceivedFirstChunk its
\* closure captured
BufferedCallbackId(received) == IF received THEN "streaming" ELSE "waiting"

\* The callback with a start branch that leaves the pending buffer alone
BufferedCallback_StartKeepsPending(message, captured) ==
  /\ CASE message.type = "start" ->
           /\ isGenerating' = TRUE
           /\ hasReceivedFirstChunk' = FALSE
           /\ appError' = NoError
           /\ success' = FALSE
           /\ generatedContent' = EmptyStr
           /\ displayContent' = EmptyStr
           /\ UNCHANGED pendingBuffer
      [] message.type = "chunk" ->
           /\ hasReceivedFirstChunk' =
                (IF captured = "waiting" /\ message.content # EmptyStr
                 THEN TRUE ELSE hasReceivedFirstChunk)
           /\ generatedContent' = generatedContent \o message.content
           /\ pendingBuffer' = pendingBuffer \o message.content
           /\ isGenerating' = TRUE
           /\ UNCHANGED <<appError, success, displayContent>>
      [] message.type = "content" ->
           /\ hasReceivedFirstChunk' =
                (IF captured = "waiting" /\ message.content # EmptyStr
                 THEN TRUE ELSE hasReceivedFirstChunk)
           /\ generatedContent' = message.content
           /\ pendingBuffer' = pendingBuffer \o message.content
           /\ isGenerating' = FALSE
           /\ UNCHANGED <<appError, success, displayContent>>
      [] message.type = "complete" ->
           /\ isGenerating' = FALSE
           /\ success' = TRUE
           /\ UNCHANGED <<hasReceivedFirstChunk, appError, generatedContent,
                          pendingBuffer, displayContent>>
      [] message.type = "error" ->
           /\ isGenerating' = FALSE
           /\ hasReceivedFirstChunk' = FALSE
           /\ appError' = IF message.error = "" THEN DefaultGenerationError ELSE message.error
           /\ UNCHANGED <<success, generatedContent, pendingBuffer, displayContent>>
      [] OTHER -> UNCHANGED <<isGenerating, hasReceivedFirstChunk, appError, success,
                              generatedContent, pendingBuffer, displayContent>>
  /\ typingInterval' =
       (IF pendingBuffer' # pendingBuffer /\ mounted
        THEN pendingBuffer' # EmptyStr ELSE typingInterval)
  /\ onmessage' =
       (IF hasReceivedFirstChunk' # hasReceivedFirstChunk /\ mounted
        THEN onMessage(onmessage, wsRef, BufferedCallbackId(hasReceivedFirstChunk'))
        ELSE onmessage)
  /\ UNCHANGED displayIndexRef

\* The callback part_001 passes to onMessage, and the effects that run after
\* it: the typing effect on [pendingBuffer], the handler effect on
\* [onMessage, hasReceivedFirstChunk]
BufferedCallback(message, captured) ==
  /\ CASE message.type = "start" ->
           /\ isGenerating' = TRUE
           /\ hasReceivedFirstChunk' = FALSE
           /\ appError' = NoError
           /\ success' = FALSE
           /\ generatedContent' = EmptyStr
           /\ pendingBuffer' = EmptyStr
           /\ displayContent' = EmptyStr
      [] message.type = "chunk" ->
           /\ hasReceivedFirstChunk' =
                (IF captured = "waiting" /\ message.content # EmptyStr
                 THEN TRUE ELSE hasReceivedFirstChunk)
           /\ generatedContent' = generatedContent \o message.content
           /\ pendingBuffer' = pendingBuffer \o message.content
           /\ isGenerating' = TRUE
           /\ UNCHANGED <<appError, success, displayContent>>
      [] message.type = "content" ->
           /\ hasReceivedFirstChunk' =
                (IF captured = "waiting" /\ message.content # EmptyStr
                 THEN TRUE ELSE hasReceivedFirstChunk)
           /\ generatedContent' = message.content
           /\ pendingBuffer' = pendingBuffer \o message.content
           /\ isGenerating' = FALSE
           /\ UNCHANGED <<appError, success, displayContent>>
      [] message.type = "complete" ->
           /\ isGenerating' = FALSE
           /\ success' = TRUE
           /\ UNCHANGED <<hasReceivedFirstChunk, appError, generatedContent,
                          pendingBuffer, displayContent>>
      [] message.type = "error" ->
           /\ isGenerating' = FALSE
           /\ hasReceivedFirstChunk' = FALSE
           /\ appError' = IF message.error = "" THEN DefaultGenerationError ELSE message.error
           /\ UNCHANGED <<success, generatedContent, pendingBuffer, displayContent>>
      [] OTHER -> UNCHANGED <<isGenerating, hasReceivedFirstChunk, appError, success,
                              generatedContent, pendingBuffer, displayContent>>
  /\ typingInterval' =
       (IF pendingBuffer' # pendingBuffer /\ mounted
        THEN pendingBuffer' # EmptyStr ELSE typingInterval)
  /\ onmessage' =
       (IF hasReceivedFirstChunk' # hasReceivedFirstChunk /\ mounted
        THEN onMessage(onmessage, wsRef, BufferedCallbackId(hasReceivedFirstChunk'))
        ELSE onmessage)
  /\ UNCHANGED displayIndexRef

\* A message event on socket s whose onmessage handler is the one of
\* part_000: JSON.parse, then the callback
BufferedOnMessageEvent(s, data) ==
  /\ readyState[s] = "OPEN"
  /\ requested[s]
  /\ data.type \in {"chunk", "content"} =>
       Len(displayContent) + Len(pendingBuffer) + Len(data.content) <= MaxLen
  /\ cycle' = IF cycle = Unobserved THEN cycle ELSE Observe(cycle, data)
  /\ IF onmessage[s] = NoHandler \/ data.type = "malformed"
     THEN /\ lastOp' = Delivery(IF data.type = "malformed" THEN "malformed" ELSE "parsed",
                                NoHandler)
          /\ UNCHANGED <<onmessage, appVars>>
     ELSE /\ BufferedCallback(data, onmessage[s])
          /\ lastOp' = Delivery("parsed", onmessage[s])
  /\ UNCHANGED <<url, status, error, wsRef, reconnectTimeoutRef, readyState,
                 requested, timers, chunksRef, mounted, prompt>>

\* A tick that ends the rendering once the generation has succeeded
BufferedTick_StopsOnSuccess ==
  /\ typingInterval
  /\ IF pendingBuffer = EmptyStr \/ success
     THEN /\ typingInterval' = FALSE
          /\ UNCHANGED <<pendingBuffer, displayContent>>
     ELSE LET scanned == getNextRenderableToken(pendingBuffer)
          IN  /\ displayContent' = displayContent \o scanned.token
              /\ pendingBuffer' = scanned.rest
              /\ typingInterval' = (scanned.rest # EmptyStr)
  /\ lastOp' = NoDelivery
  /\ UNCHANGED <<url, status, error, wsRef, reconnectTimeoutRef, readyState,
                 onmessage, requested, timers, chunksRef, mounted, prompt,
                 isGenerating, appError, success, generatedContent, displayIndexRef,
                 hasReceivedFirstChunk, cycle>>

\* A tick of the interval the typing effect of part_001 set, and the effect
\* that runs after it
BufferedTick ==
  /\ typingInterval
  /\ IF pendingBuffer = EmptyStr
     THEN /\ typingInterval' = FALSE
          /\ UNCHANGED <<pendingBuffer, displayContent>>
     ELSE LET scanned == getNextRenderableToken(pendingBuffer)
          IN  /\ displayContent' = displayContent \o scanned.token
              /\ pendingBuffer' = scanned.rest
              /\ typingInterval' = (scanned.rest # EmptyStr)
  /\ lastOp' = NoDelivery
  /\ UNCHANGED <<url, status, error, wsRef, reconnectTimeoutRef, readyState,
                 onmessage, requested, timers, chunksRef, mounted, prompt,
                 isGenerating, appError, success, generatedContent, displayIndexRef,
                 hasReceivedFirstChunk, cycle>>

\* The mount effects of part_001, in order: connect(), onMessage(callback),
\* the typing effect
BufferedMount ==
  /\ ~mounted
  /\ CanConnect(timers)
  /\ mounted' = TRUE
  /\ connect(timers)
  /\ onmessage' = onMessage(onmessage, wsRef', BufferedCallbackId(hasReceivedFirstChunk))
  /\ typingInterval' = (pendingBuffer # EmptyStr)
  /\ lastOp' = NoDelivery
  /\ UNCHANGED <<url, reconnectTimeoutRef, requested, timers, chunksRef, prompt,
                 isGenerating, appError, success, generatedContent, displayContent,
                 displayIndexRef, pendingBuffer, hasReceivedFirstChunk, cycle>>

\* The mount effects, in order: connect(), onMessage(callback), the typing
\* effect.
Mount ==
  /\ ~mounted
  /\ CanConnect(timers)
  /\ mounted' = TRUE
  /\ connect(timers)
  /\ onmessage' = onMessage(onmessage, wsRef', prompt)
  /\ TypingEffect(generatedContent)
  /\ lastOp' = NoDelivery
  /\ UNCHANGED cycle
  /\ UNCHANGED <<url, reconnectTimeoutRef, requested, timers, chunksRef, prompt,
                 isGenerating, appError, success, generatedContent, pendingBuffer,
                 hasReceivedFirstChunk>>

\* An unmount whose cleanup does not clear the interval of the typing effect
Unmount_KeepsInterval ==
  /\ mounted
  /\ mounted' = FALSE
  /\ disconnect
  /\ UNCHANGED typingInterval
  /\ lastOp' = NoDelivery
  /\ UNCHANGED cycle
  /\ UNCHANGED <<url, onmessage, requested, prompt, isGenerating, appError, success,
                 generatedContent, displayContent, displayIndexRef, pendingBuffer,
                 hasReceivedFirstChunk>>

\* The cleanups on unmount: disconnect() (of the component's effect and of
\* the hook's own; the second call finds nothing left to do) and
\* clearInterval of the typing effect.
Unmount ==
  /\ mounted
  /\ mounted' = FALSE
  /\ disconnect
  /\ typingInterval' = FALSE
  /\ lastOp' = NoDelivery
  /\ UNCHANGED cycle
  /\ UNCHANGED <<url, onmessage, requested, prompt, isGenerating, appError, success,
                 generatedContent, displayContent, displayIndexRef, pendingBuffer,
                 hasReceivedFirstChunk>>

\* The Reconnect button, shown unless status is connected or connecting
ReconnectClick ==
  /\ mounted
  /\ status \in {"disconnected", "error"}
  /\ CanConnect(timers)
  /\ connect(timers)
  /\ lastOp' = NoDelivery
  /\ UNCHANGED cycle
  /\ UNCHANGED <<url, reconnectTimeoutRef, onmessage, requested, timers, chunksRef,
                 mounted, prompt, appVars>>

\* The prompt is edited; the effect with [onMessage, prompt] runs again
EditPrompt(p) ==
  /\ mounted
  /\ p # prompt
  /\ prompt' = p
  /\ onmessage' = onMessage(onmessage, wsRef, p)
  /\ lastOp' = NoDelivery
  /\ UNCHANGED cycle
  /\ UNCHANGED <<url, status, error, wsRef, reconnectTimeoutRef, readyState,
                 requested, timers, chunksRef, mounted, appVars>>

\* handleGenerate; the button is disabled unless status is connected and no
\* generation runs
HandleGenerate ==
  /\ mounted
  /\ status = "connected"
  /\ ~isGenerating
  /\ success' = FALSE
  /\ CASE prompt = "" ->
            /\ appError' = EnterPromptMsg
            /\ lastOp' = NoDelivery
            /\ UNCHANGED cycle
            /\ UNCHANGED <<status, error, wsRef, readyState, requested>>
       [] status # "connected" ->
            /\ appError' = NotConnectedMsg
            /\ CanConnect(timers)
            /\ connect(timers)
            /\ lastOp' = NoDelivery
            /\ UNCHANGED cycle
            /\ UNCHANGED requested
       [] sendMessage ->
            /\ appError' = NoError
            /\ requested' = [requested EXCEPT ![wsRef] = TRUE]
            /\ lastOp' = NoDelivery
            /\ UNCHANGED cycle
            /\ UNCHANGED <<status, error, wsRef, readyState>>
       [] OTHER ->
            /\ appError' = SendFailedMsg
            /\ lastOp' = NoDelivery
            /\ UNCHANGED cycle
            /\ UNCHANGED <<status, error, wsRef, readyState, requested>>
  /\ UNCHANGED <<url, reconnectTimeoutRef, onmessage, timers, chunksRef, mounted,
                 prompt, isGenerating, generatedContent, typingVars, pendingBuffer,
                 hasReceivedFirstChunk>>

\* handleGenerate of part_001, and the handler effect that runs if
\* hasReceivedFirstChunk changed
BufferedHandleGenerate ==
  /\ mounted
  /\ status = "connected"
  /\ ~isGenerating
  /\ success' = FALSE
  /\ hasReceivedFirstChunk' = FALSE
  /\ onmessage' =
       (IF hasReceivedFirstChunk
        THEN onMessage(onmessage, wsRef, BufferedCallbackId(FALSE))
        ELSE onmessage)
  /\ CASE prompt = "" ->
            /\ appError' = EnterPromptMsg
            /\ UNCHANGED <<status, error, wsRef, readyState, requested>>
       [] status # "connected" ->
            /\ appError' = NotConnectedMsg
            /\ CanConnect(timers)
            /\ connect(timers)
            /\ UNCHANGED requested
       [] sendMessage ->
            /\ appError' = NoError
            /\ requested' = [requested EXCEPT ![wsRef] = TRUE]
            /\ UNCHANGED <<status, error, wsRef, readyState>>
       [] OTHER ->
            /\ appError' = SendFailedMsg
            /\ UNCHANGED <<status, error, wsRef, readyState, requested>>
  /\ lastOp' = NoDelivery
  /\ UNCHANGED <<url, reconnectTimeoutRef, timers, chunksRef, mounted, prompt,
                 isGenerating, generatedContent, typingVars, pendingBuffer, cycle>>

\* The exporter handleExport calls for a format, and the error it sets when
\* the exporter throws
Exporter(format) == IF format = "word" THEN "exportToWord" ELSE "exportToPDF"

ExportFailedMsg(format) ==
  IF format = "word" THEN "Failed to export to WORD" ELSE "Failed to export to PDF"

\* handleExport that passes RawContent to the exporter
handleExport_ExportsRawContent(format, ok) ==
  IF displayContent = EmptyStr
  THEN /\ appError' = NoContentMsg
       /\ lastOp' = Step("export", NoHandler, <<>>)
  ELSE /\ lastOp' = Step("export", NoHandler, <<Call(Exporter(format), generatedContent)>>)
       /\ appError' = IF ok THEN appError ELSE ExportFailedMsg(format)

\* handleExport(format), with an exporter that resolves (ok) or throws;
\* isExporting is set for the time of the call and cleared at its end
handleExport(format, ok) ==
  IF displayContent = EmptyStr
  THEN /\ appError' = NoContentMsg
       /\ lastOp' = Step("export", NoHandler, <<>>)
  ELSE /\ lastOp' = Step("export", NoHandler, <<Call(Exporter(format), displayContent)>>)
       /\ appError' = IF ok THEN appError ELSE ExportFailedMsg(format)

\* A click on the Word or the PDF button, which are rendered with the
\* success message: success && !isGenerating && displayContent
ExportClick(format, ok) ==
  /\ mounted
  /\ success /\ ~isGenerating /\ displayContent # EmptyStr
  /\ handleExport(format, ok)
  /\ UNCHANGED <<url, status, error, wsRef, reconnectTimeoutRef, readyState,
                 onmessage, requested, timers, chunksRef, mounted, prompt,
                 isGenerating, success, generatedContent, displayContent,
                 displayIndexRef, typingInterval, pendingBuffer,
                 hasReceivedFirstChunk, cycle>>

InitWith(observed) ==
  /\ url \in Urls
  /\ status = "disconnected"
  /\ error = NoError
  /\ wsRef = Null
  /\ reconnectTimeoutRef = Null
  /\ readyState = [s \in SockIds |-> "NONE"]
  /\ onmessage = [s \in SockIds |-> NoHandler]
  /\ requested = [s \in SockIds |-> FALSE]
  /\ timers = {}
  /\ chunksRef = <<>>
  /\ mounted = FALSE
  /\ prompt = InitialPrompt
  /\ isGenerating = FALSE
  /\ appError = NoError
  /\ success = FALSE
  /\ generatedContent = EmptyStr
  /\ displayContent = EmptyStr
  /\ displayIndexRef = 0
  /\ typingInterval = FALSE
  /\ pendingBuffer = EmptyStr
  /\ hasReceivedFirstChunk = FALSE
  /\ cycle = (IF observed THEN NoCycle ELSE Unobserved)
  /\ lastOp = NoDelivery

Init == InitWith(FALSE)

\* The characters of the pending strings given to the token scanner, and
\* the strings
ScanChars == {"<", ">", "&", ";", "a"}

ScanStrings == UNION {[1..n -> ScanChars] : n \in 0..MaxScanLen}

\* part_001 after mount, open, a generate request, start and content(s), for
\* every string s: s is pending and nothing is shown
InitScanner ==
  /\ url = GoodUrl
  /\ status = "connected"
  /\ error = NoError
  /\ wsRef = 1
  /\ reconnectTimeoutRef = Null
  /\ readyState = [s \in SockIds |-> IF s = 1 THEN "OPEN" ELSE "NONE"]
  /\ requested = [s \in SockIds |-> s = 1]
  /\ timers = {}
  /\ chunksRef = <<>>
  /\ mounted = TRUE
  /\ prompt = InitialPrompt
  /\ isGenerating = FALSE
  /\ appError = NoError
  /\ success = FALSE
  /\ pendingBuffer \in ScanStrings
  /\ generatedContent = pendingBuffer
  /\ displayContent = EmptyStr
  /\ displayIndexRef = 0
  /\ typingInterval = (pendingBuffer # EmptyStr)
  /\ hasReceivedFirstChunk = (pendingBuffer # EmptyStr)
  /\ onmessage = [s \in SockIds |->
                    IF s = 1 THEN BufferedCallbackId(hasReceivedFirstChunk) ELSE NoHandler]
  /\ cycle = Unobserved
  /\ lastOp = Delivery("parsed", "waiting")

\* The same, with the wire observed
InitObserved == InitWith(TRUE)

\* The hook and the component, without the server's frames
NextConn ==
  \/ Mount
  \/ Unmount
  \/ ReconnectClick
  \/ HandleGenerate
  \/ \E p \in Prompts : EditPrompt(p)
  \/ \E s \in SockIds : OnOpen(s)
  \/ \E s \in SockIds : OnError(s)
  \/ \E s \in SockIds : OnClose(s)
  \/ \E t \in SockIds : TimerFire(t)

Next ==
  \/ NextConn
  \/ \E s \in SockIds, data \in Frames : OnMessageEvent(s, data)

\* A component that is mounted once and stays mounted, and has no Reconnect
\* button (App.tsx): connect() is called on mount and by the reconnect timer.
NextMounted ==
  \/ Mount
  \/ HandleGenerate
  \/ \E p \in Prompts : EditPrompt(p)
  \/ \E s \in SockIds : OnOpen(s)
  \/ \E s \in SockIds : OnError(s)
  \/ \E s \in SockIds : OnClose(s)
  \/ \E t \in SockIds : TimerFire(t)
  \/ \E s \in SockIds, data \in Frames : OnMessageEvent(s, data)

\* App.tsx on its hook, mounted once, on a transport that stays open: the
\* frames of generations and the ticks of the typing effect
NextCursor ==
  \/ Mount
  \/ HandleGenerate
  \/ \E s \in SockIds : OnOpen(s)
  \/ \E s \in SockIds, data \in StreamFrames : OnMessageEvent(s, data)
  \/ TypingTick

\* part_001 on part_000, mounted once, on a transport that stays open: the
\* frames of generations and the ticks of the typing effect
NextBuffer ==
  \/ BufferedMount
  \/ BufferedHandleGenerate
  \/ \E s \in SockIds : OnOpen(s)
  \/ \E s \in SockIds, data \in StreamFrames : BufferedOnMessageEvent(s, data)
  \/ BufferedTick

\* part_001 with its export buttons
NextExport ==
  \/ NextBuffer
  \/ \E format \in ExportFormats, ok \in BOOLEAN : ExportClick(format, ok)

\* App.tsx on its hook, mounted once, on a transport that stays open: the
\* frames of chunked generations, as they arrive back to back (no tick of
\* the typing interval between them)
NextStaging ==
  \/ Mount
  \/ HandleGenerate
  \/ \E s \in SockIds : OnOpen(s)
  \/ \E s \in SockIds, data \in StagingFrames : OnMessageEvent(s, data)

Spec == Init /\ [][Next]_vars

SpecStaging == InitObserved /\ [][NextStaging]_vars

SpecExport == InitObserved /\ [][NextExport]_vars

SpecBuffer == InitObserved /\ [][NextBuffer]_vars

\* The same, with the interval of the typing effect firing as long as it is
\* set
SpecBufferLive == SpecBuffer /\ WF_vars(BufferedTick)

\* The ticks of part_001 on every pending string
SpecScanner == InitScanner /\ [][BufferedTick]_vars

\* The same, with the interval firing as long as it is set
SpecScannerLive == SpecScanner /\ WF_vars(BufferedTick)

SpecCursor == InitObserved /\ [][NextCursor]_vars

SpecConn == Init /\ [][NextConn]_vars

SpecMounted == Init /\ [][NextMounted]_vars

\* ---------------------------------------------------------------------
\* What a step did, read off the state before and after it

\* A transport was opened (new WebSocket(url) returned a socket)
OpensTransport ==
  \E s \in SockIds : readyState[s] # "CONNECTING" /\ readyState'[s] = "CONNECTING"

\* disconnect() was called
DisconnectCall == mounted /\ ~mounted'

\* The error event of a socket was dispatched
ErrorEvent == \E s \in SockIds : readyState[s] # "CLOSED" /\ readyState'[s] = "CLOSED"

\* The close event of a socket was dispatched
CloseEvent == \E s \in SockIds : readyState[s] # "NONE" /\ readyState'[s] = "NONE"

\* A payload was transmitted on socket s
Transmits(s) == ~requested[s] /\ requested'[s]

\* The callback was invoked with a frame of this type
Handles(type) == lastOp'.callback # NoHandler /\ cycle'.frame.type = type

\* ---------------------------------------------------------------------
\* Connection state machine

\* C1: after disconnect() the reconnect loop is suppressed: until the next
\* explicit connect() (the next mount) no transport is opened and
\* ConnectionState does not become connecting or connected.
C1_DisconnectSuppressesReconnect ==
  [][(~mounted /\ ~mounted') =>
       (~OpensTransport /\ status' \notin {"connecting", "connected"})]_vars

\* C2: there are never two outstanding reconnect timers.
C2_AtMostOneReconnectTimer == Cardinality(timers) <= 1

\* C3: disconnect() called while a reconnect is scheduled leaves no
\* scheduled reconnect that could still fire.
C3_DisconnectCancelsScheduledReconnect ==
  [][DisconnectCall => timers' = {}]_vars

\* C4: while ConnectionState is connecting or connected, no step opens a
\* second transport (a connect() call is a no-op).
C4_ConnectOnlyWhenNotConnected ==
  [][(status \in {"connecting", "connected"}) => ~OpensTransport]_vars

\* C5: send returns true exactly when ConnectionState = connected.
C5_SendIffConnected == sendMessage <=> status = "connected"

\* C6: with ConnectionState = disconnected send returns false; a payload is
\* transmitted only by a generate request, at once, on the handle's transport
\* while it is open; a failed send transmits nothing, and no later step (an
\* open, a reconnect) transmits for it.
C6_SendWhileDisconnectedFails ==
  /\ [](status = "disconnected" => ~sendMessage)
  /\ [][\A s \in SockIds :
          Transmits(s) =>
            /\ mounted /\ status = "connected" /\ ~isGenerating /\ prompt # ""
            /\ s = wsRef /\ readyState[s] = "OPEN"
            /\ appError' = NoError
            /\ UNCHANGED <<status, wsRef, readyState, timers>>]_vars

\* C6 witness: a generate request was made with the handle released (the
\* transport was gone); the send reported failure and nothing is marked
\* transmitted.
C6_Witness ==
  /\ appError = SendFailedMsg
  /\ wsRef = Null
  /\ ~sendMessage
  /\ \A s \in SockIds : ~requested[s]

\* C7: every well-formed frame that is not a staged chunk is delivered to
\* the most recently installed callback (the one the component installed
\* for its current prompt).
C7_FramesReachLatestHandler ==
  lastOp.frame = "parsed" => lastOp.callback = prompt

\* C8: a malformed frame invokes no callback and changes nothing:
\* ConnectionState, the handle, the staged chunks, RawContent and the
\* lifecycle stay as they are.
C8_MalformedFrameChangesNothing ==
  [][(lastOp'.frame = "malformed") =>
       /\ lastOp'.callback = NoHandler
       /\ UNCHANGED <<url, status, error, wsRef, reconnectTimeoutRef, readyState,
                      onmessage, requested, timers, chunksRef, mounted, prompt,
                      isGenerating, appError, success, generatedContent,
                      displayContent, displayIndexRef, typingInterval,
                      pendingBuffer, hasReceivedFirstChunk>>]_vars

\* C8 witness: a malformed frame arrived on an open socket with a callback
\* installed, in the middle of a generation with a chunk staged.
C8_Witness ==
  /\ lastOp.frame = "malformed"
  /\ isGenerating
  /\ chunksRef # <<>>
  /\ wsRef # Null /\ readyState[wsRef] = "OPEN" /\ onmessage[wsRef] # NoHandler

\* C9: an error event sets ConnectionState = error with the fixed message,
\* schedules no reconnect and keeps the handle; a reconnect timer is set only
\* by a close event.
C9_ErrorEventOnlySetsError ==
  [][/\ ErrorEvent =>
          /\ status' = "error"
          /\ error' = ConnectionErrorMsg
          /\ timers' = timers
          /\ reconnectTimeoutRef' = reconnectTimeoutRef
          /\ wsRef' = wsRef
     /\ timers' \ timers # {} => CloseEvent]_vars

\* C9 witness: the transport behind the handle has failed, its close event
\* is still to come, and no reconnect is scheduled.
C9_Witness ==
  /\ status = "error"
  /\ error = ConnectionErrorMsg
  /\ wsRef # Null /\ readyState[wsRef] = "CLOSED"
  /\ timers = {}

\* The edges of the connection state machine other than disconnect()
SpecifiedEdges ==
  {<<"disconnected", "connecting">>, <<"connecting", "connected">>,
   <<"connected", "disconnected">>, <<"connecting", "error">>,
   <<"connected", "error">>, <<"error", "disconnected">>}

\* C10: every change of ConnectionState is one of the specified edges, or
\* is made by disconnect() and ends in disconnected (stated for a url the
\* WebSocket constructor accepts).
C10_OnlySpecifiedEdges ==
  [][(url = GoodUrl /\ status' # status) =>
       \/ <<status, status'>> \in SpecifiedEdges
       \/ DisconnectCall /\ status' = "disconnected"]_vars

\* A socket object exists: its close event is still to come
LiveTransport == \E s \in SockIds : readyState[s] # "NONE"

\* C11: no terminal state: while a url is configured and disconnect() has not
\* been called (the component is mounted), the machine is connecting or
\* something is left that leads there: a transport whose close event will
\* schedule the reconnect, or a scheduled reconnect.
C11_NoTerminalState ==
  (mounted /\ url # NoUrl) =>
    (status = "connecting" \/ LiveTransport \/ timers # {})

\* ---------------------------------------------------------------------
\* Rendering

\* str ends between an opening character and the closing one that matches it
EndsInside(str, opening, closing) ==
  \E p \in 1..Len(str) :
    /\ str[p] = opening
    /\ \A q \in (p + 1)..Len(str) : str[q] # closing

\* C12: DisplayedContent never ends inside a tag (between '<' and its '>')
\* or inside an entity reference (between '&' and its ';').
C12_NoTruncatedMarkup ==
  /\ ~EndsInside(displayContent, "<", ">")
  /\ ~EndsInside(displayContent, "&", ";")

\* A start has been seen: a generation cycle is under way or over
InCycle == cycle.phase # "idle"

\* The render ticker of part_001 has run to quiescence
BufferQuiescent == ~typingInterval /\ pendingBuffer = EmptyStr

\* C13: in a generation cycle, once the ticker of the buffer-draining
\* component has run to quiescence, DisplayedContent = RawContent.
C13_ConvergesAtQuiescence ==
  (InCycle /\ BufferQuiescent) => displayContent = generatedContent

\* C14: PendingBuffer is the suffix of RawContent not yet shown:
\* DisplayedContent followed by PendingBuffer is RawContent.
C14_PendingIsUnshownSuffix ==
  displayContent \o pendingBuffer = generatedContent

IsPrefix(a, b) == Len(a) <= Len(b) /\ Take(b, Len(a)) = a

\* C15: from a start on, DisplayedContent is a prefix of RawContent, and a
\* step that changes DisplayedContent other than by a start only appends to
\* it (nothing shown is shown again or taken back).
C15_DisplayedIsPrefixOfRaw ==
  /\ [](InCycle => IsPrefix(displayContent, generatedContent))
  /\ [][(displayContent' # displayContent /\ cycle'.phase # "started") =>
          /\ IsPrefix(displayContent, displayContent')
          /\ displayContent' = displayContent \o getNextRenderableToken(pendingBuffer).token]_vars

\* ---------------------------------------------------------------------
\* Token scanner

\* What the scanner returns for the pending string
Scanned == getNextRenderableToken(pendingBuffer)

Occurs(c, str) == \E i \in 1..Len(str) : str[i] = c

\* str ends with c and c occurs nowhere else in it
EndsAtFirst(str, c) ==
  /\ str # EmptyStr
  /\ str[Len(str)] = c
  /\ \A i \in 1..(Len(str) - 1) : str[i] # c

\* C16: for every pending string s, token + rest = s.
C16_TokenPlusRestIsPending ==
  Scanned.token \o Scanned.rest = pendingBuffer

\* C16 witness: a tick has taken the tag "<a>" off the pending "<a>a".
C16_Witness ==
  /\ displayContent = <<"<", "a", ">">>
  /\ pendingBuffer = <<"a">>
  /\ generatedContent = displayContent \o pendingBuffer

\* C17: if s starts with '<' and holds a '>', the token is s up to and
\* including the first '>'; if s starts with '&' and holds a ';', the token
\* is s up to and including the first ';'.
C17_TokenIsWholeTagOrEntity ==
  /\ (pendingBuffer # EmptyStr /\ pendingBuffer[1] = "<" /\ Occurs(">", pendingBuffer)) =>
       (IsPrefix(Scanned.token, pendingBuffer) /\ EndsAtFirst(Scanned.token, ">"))
  /\ (pendingBuffer # EmptyStr /\ pendingBuffer[1] = "&" /\ Occurs(";", pendingBuffer)) =>
       (IsPrefix(Scanned.token, pendingBuffer) /\ EndsAtFirst(Scanned.token, ";"))

\* C17 witness: a tick has taken "&a;" off the pending "&a;;", up to the
\* first ';' and not the second.
C17_Witness ==
  /\ displayContent = <<"&", "a", ";">>
  /\ pendingBuffer = <<";">>
  /\ generatedContent = <<"&", "a", ";", ";">>

\* The scanner's one-character cases
OneCharacterCase ==
  /\ pendingBuffer # EmptyStr
  /\ \/ pendingBuffer[1] = "<" /\ ~Occurs(">", pendingBuffer)
     \/ pendingBuffer[1] = "&" /\ ~Occurs(";", pendingBuffer)
     \/ pendingBuffer[1] \notin {"<", "&"}

\* C18: if s starts with '<' and holds no '>', or starts with '&' and holds
\* no ';', or starts with any other character, the token is the first
\* character of s and the rest is s without it.
C18_FallbackIsOneCharacter ==
  OneCharacterCase =>
    (Scanned.token = <<pendingBuffer[1]>> /\ Scanned.rest = Tail(pendingBuffer))

\* C18 witness: a tick has taken only "<" off the unterminated "<aaa".
C18_Witness ==
  /\ displayContent = <<"<">>
  /\ pendingBuffer = <<"a", "a", "a">>
  /\ generatedContent = <<"<", "a", "a", "a">>

\* ---------------------------------------------------------------------
\* Whole generations on the wire

\* start, chunk(c1), ..., chunk(cn, is_last), complete have just arrived, in
\* this order and with nothing between them, and complete is the last thing
\* that happened
ChunkedCycleDone == cycle.phase = "chunkedDone" /\ lastOp # NoDelivery

\* C19: after start, chunk(c1), ..., chunk(cn, is_last=true), complete,
\* RawContent is c1 + ... + cn in arrival order (as App.tsx keeps it: with
\* the markdown fences removed) and the generation has succeeded.
C19_ChunksReassembledInOrder ==
  ChunkedCycleDone =>
    /\ generatedContent = cleanMarkdownFences(cycle.text)
    /\ success
    /\ ~isGenerating

\* start, content(X), complete have arrived in this order with nothing
\* between them, and the typing interval has stopped
SingleShotQuiescent == cycle.phase = "singleDone" /\ ~typingInterval

LastFrame(type) == cycle.frame.type = type

\* C21: a content message replaces RawContent by its content, whatever was
\* accumulated before, and what is displayed in the end (no frame after it,
\* nothing pending, the interval stopped) is that RawContent.
C21_ContentReplacesRawAndDisplay ==
  /\ [][Handles("content") => generatedContent' = cycle'.frame.content]_vars
  /\ []((LastFrame("content") /\ BufferQuiescent) => displayContent = generatedContent)

\* C22: a start message, in any prior state, empties RawContent,
\* PendingBuffer and DisplayedContent, makes the lifecycle generating and
\* clears the error and the success indication.
C22_StartResets ==
  [][Handles("start") =>
       /\ generatedContent' = EmptyStr
       /\ pendingBuffer' = EmptyStr
       /\ displayContent' = EmptyStr
       /\ isGenerating'
       /\ appError' = NoError
       /\ ~success']_vars

\* C22 witness: start was handled by the callback that had seen content
\* arrive, and everything is reset.
C22_Witness ==
  /\ LastFrame("start")
  /\ lastOp.callback = BufferedCallbackId(TRUE)
  /\ ~typingInterval
  /\ generatedContent = EmptyStr /\ pendingBuffer = EmptyStr /\ displayContent = EmptyStr
  /\ isGenerating /\ appError = NoError /\ ~success

\* C23: a complete message makes the lifecycle succeeded and does not end
\* the rendering: it leaves PendingBuffer, DisplayedContent and the interval
\* as they are, and what is pending then drains into DisplayedContent,
\* nothing lost, until nothing is pending (or another frame arrives).
C23_CompleteDoesNotEndRendering ==
  /\ [][Handles("complete") =>
          /\ success' /\ ~isGenerating'
          /\ UNCHANGED <<pendingBuffer, displayContent, typingInterval>>]_vars
  /\ [][(LastFrame("complete") /\ cycle' = cycle) =>
          displayContent' \o pendingBuffer' = displayContent \o pendingBuffer]_vars
  /\ (LastFrame("complete") /\ pendingBuffer # EmptyStr) ~>
       (pendingBuffer = EmptyStr \/ ~LastFrame("complete"))

\* C23 witness: complete has just been handled while a tag was pending; the
\* generation has succeeded and the interval is still set.
C23_Witness ==
  /\ LastFrame("complete")
  /\ lastOp.callback # NoHandler
  /\ success /\ ~isGenerating
  /\ pendingBuffer = <<"<", "b", ">">>
  /\ typingInterval

\* C24: an error frame ends the generation as failed, and the user-facing
\* error is the frame's error string, or "An error occurred during
\* generation" when the frame carries none.
C24_ErrorFrameFails ==
  [][Handles("error") =>
       /\ ~isGenerating'
       /\ cycle'.frame.error # "" => appError' = cycle'.frame.error
       /\ cycle'.frame.error = "" => appError' = DefaultGenerationError]_vars

\* C24 witness: error("quota exceeded") has just been handled in a
\* generation that had started.
C24_Witness ==
  /\ cycle = WireCycle("other", EmptyStr, Frame("error", EmptyStr, FALSE, "quota exceeded"))
  /\ lastOp.callback # NoHandler
  /\ ~isGenerating
  /\ appError = "quota exceeded"

\* C25: an error frame leaves ConnectionState, the transport handle,
\* RawContent and DisplayedContent unchanged, and after it a generate request
\* can be sent on the same connection.
C25_ErrorFrameLeavesConnectionAndContent ==
  /\ [][Handles("error") =>
          UNCHANGED <<status, wsRef, readyState, generatedContent, displayContent>>]_vars
  /\ []((LastFrame("error") /\ lastOp.callback # NoHandler) =>
          (mounted /\ status = "connected" /\ ~isGenerating /\ sendMessage))

\* C25 witness: after an error frame the content is still there, and a
\* generate request has been sent on the same socket (which cleared the
\* error).
C25_Witness ==
  /\ LastFrame("error")
  /\ lastOp = NoDelivery
  /\ appError = NoError
  /\ wsRef = 1 /\ readyState[1] = "OPEN" /\ requested[1]
  /\ generatedContent = <<"a">>
  /\ displayContent = <<"a">>

\* A generation has run from start to complete, and no frame has arrived
\* since
CycleCompleted == cycle.phase \in {"chunkedDone", "singleDone"}

\* C26: RawContent is append-only within a generation cycle: it changes
\* only on start, chunk and content; it becomes empty only on start (or by a
\* content message that replaces it); a chunk makes it the old RawContent
\* followed by the chunk's content; and once complete has arrived it does
\* not change until the next start.
C26_RawContentAppendOnly ==
  [][/\ Handles("chunk") => generatedContent' = generatedContent \o cycle'.frame.content
     /\ generatedContent' # generatedContent =>
          (Handles("start") \/ Handles("chunk") \/ Handles("content"))
     /\ (generatedContent' = EmptyStr /\ generatedContent # EmptyStr) =>
          (Handles("start") \/ Handles("content"))
     /\ (CycleCompleted /\ ~Handles("start")) =>
          generatedContent' = generatedContent]_vars

\* ---------------------------------------------------------------------
\* Collaborators

\* The calls of an exporter the last step made
ExportCalls ==
  {i \in DOMAIN lastOp.calls : lastOp.calls[i].fn \in {"exportToWord", "exportToPDF"}}

HistoryEntries(op) ==
  SelectSeq(op.calls, LAMBDA call : call.fn = "setConversations")

\* C28: each complete message adds exactly one entry to the conversation
\* history, whose contract is the final RawContent of that generation; no
\* other step adds an entry.
C28_OneHistoryEntryPerComplete ==
  [][/\ Handles("complete") =>
          /\ Len(HistoryEntries(lastOp')) = 1
          /\ HistoryEntries(lastOp')[1].arg.contract = generatedContent'
     /\ ~Handles("complete") => HistoryEntries(lastOp') = <<>>]_vars

\* C28 witness: start, content, complete have arrived, the content in a
\* markdown fence, and the entry holds the cleaned RawContent.
C28_Witness ==
  /\ cycle.phase = "singleDone"
  /\ cycle.text = <<Backtick, Backtick, Backtick, "\n", "a">>
  /\ lastOp.calls =
       <<Call("setConversations", [prompt |-> InitialPrompt, contract |-> <<"a">>])>>
  /\ generatedContent = <<"a">>

\* ---------------------------------------------------------------------
\* The cursor-based render scheduler

\* C29: the cursor-based scheduler of App.tsx does what the buffer-draining
\* one is specified to do: whatever it shows is a prefix of RawContent, and
\* at quiescence (no interval set) DisplayedContent is RawContent, also
\* after RawContent has grown by one character, has been replaced or has
\* shrunk.
C29_CursorSchedulerConverges ==
  /\ [][displayContent' # displayContent =>
          IsPrefix(displayContent', generatedContent')]_vars
  /\ []((mounted /\ ~typingInterval) => displayContent = generatedContent)

\* ---------------------------------------------------------------------
\* Chunk-combining mode

\* The step was a message event that carried a chunk frame
ChunkEvent(last) ==
  /\ lastOp'.frame \in {"staged", "parsed"}
  /\ cycle'.frame.type = "chunk"
  /\ cycle'.frame.is_last = last

\* C30: a chunk frame that is not the last is staged, at the end of the
\* staging list, and the handler is not invoked; a chunk frame with
\* is_last invokes the handler, with a content event (only RawContent
\* changes) whose content is the staged chunks followed by this one,
\* concatenated, and leaves the staging list empty.
C30_ChunksStagedUntilLast ==
  [][/\ ChunkEvent(FALSE) =>
          /\ lastOp'.callback = NoHandler
          /\ chunksRef' = Append(chunksRef, cycle'.frame.content)
          /\ UNCHANGED <<generatedContent, displayContent, isGenerating, appError, success>>
     /\ ChunkEvent(TRUE) =>
          /\ lastOp'.callback # NoHandler
          /\ generatedContent' =
               cleanMarkdownFences(Join(chunksRef) \o cycle'.frame.content)
          /\ UNCHANGED <<isGenerating, appError, success>>
          /\ chunksRef' = <<>>]_vars

\* C30 witness: chunk("a") and chunk("b", is_last) have arrived in this
\* order after start, and the handler has received "ab".
C30_Witness ==
  /\ cycle = WireCycle("chunked", <<"a", "b">>, Frame("chunk", <<"b">>, TRUE, ""))
  /\ lastOp.callback # NoHandler
  /\ generatedContent = <<"a", "b">>
  /\ chunksRef = <<>>

\* ---------------------------------------------------------------------
\* The render timer

\* C31: with no further input, every tick on a non-empty PendingBuffer
\* removes at least one character (also when it starts with an unterminated
\* tag or entity), PendingBuffer becomes and stays empty with the timer
\* stopped, and the timer is never set while PendingBuffer is empty.
C31_RenderTerminates ==
  /\ [][pendingBuffer # EmptyStr => Len(pendingBuffer') < Len(pendingBuffer)]_vars
  /\ <>[](pendingBuffer = EmptyStr /\ ~typingInterval)
  /\ [](typingInterval => pendingBuffer # EmptyStr)

\* C31 witness: the pending "<aa;", an unterminated tag, has been shown
\* whole and the timer has stopped.
C31_Witness ==
  /\ generatedContent = <<"<", "a", "a", ";">>
  /\ displayContent = generatedContent
  /\ pendingBuffer = EmptyStr
  /\ ~typingInterval

\* part_001 on part_000, mounted, unmounted and mounted again on a new
\* transport: the frames of generations and the ticks of the typing effect
NextTeardown ==
  \/ BufferedMount
  \/ Unmount
  \/ BufferedHandleGenerate
  \/ \E s \in SockIds : OnOpen(s)
  \/ \E s \in SockIds, data \in StreamFrames : BufferedOnMessageEvent(s, data)
  \/ BufferedTick

SpecTeardown == Init /\ [][NextTeardown]_vars

Stalled ==
  /\ mounted
  /\ isGenerating
  /\ status = "connected"
  /\ wsRef # Null
  /\ readyState[wsRef] = "OPEN"
  /\ ~requested[wsRef]

\* C33: when the transport was lost during a generation and the connection
\* is connected again, a new generate request can be issued (the Generate
\* button is enabled).
C33_StalledGenerationCanBeRetried == [](Stalled => ENABLED HandleGenerate)

\* ---------------------------------------------------------------------
\* The lifecycle flags

\* C34: in part_001 a content message ends generating and leaves success
\* alone, success is set only by a complete message, and a chunk or content
\* message handled after a complete or error message does not set
\* isGenerating.
C34_ContentPolicyConsistent ==
  /\ [][Handles("content") => (~isGenerating' /\ success' = success)]_vars
  /\ [][(success' /\ ~success) => Handles("complete")]_vars
  /\ [][(LastFrame("complete") \/ LastFrame("error"))
          /\ (Handles("chunk") \/ Handles("content")) => ~isGenerating']_vars

\* ---------------------------------------------------------------------
\* Transports and the handle

\* The sockets that have been created and are connecting or open: neither
\* close() has been called on them nor have they failed or closed
LiveTransports == {s \in SockIds : readyState[s] \in {"CONNECTING", "OPEN"}}

\* C35: at most one live transport (a socket that has been created and has
\* not yet closed) exists at any time.
C35_AtMostOneLiveTransport == Cardinality(LiveTransports) <= 1

\* The stored handle refers to a socket that is open
HandleOpen == wsRef # Null /\ readyState[wsRef] = "OPEN"

\* The close event of socket s
ClosesSocket(s) == readyState[s] # "NONE" /\ readyState'[s] = "NONE"

\* C36: ConnectionState is connected exactly when the stored handle refers
\* to an open transport, and the close event of a socket other than the
\* handle's leaves the handle and the ConnectionState of an open socket as
\* they are.
C36_StateAgreesWithHandle ==
  /\ [](status = "connected" <=> HandleOpen)
  /\ [][\A s \in SockIds :
          (HandleOpen /\ wsRef # s /\ ClosesSocket(s))
            => (wsRef' = wsRef /\ status' = status)]_vars

\* C37: once the component has installed its message handler (it does on
\* mount), every open transport the handle refers to has a handler to
\* deliver its frames to, also one opened by the automatic reconnect or
\* after a handler was installed without a handle.
C37_HandlerSurvivesReconnect ==
  (mounted /\ HandleOpen) => onmessage[wsRef] # NoHandler

\* C38: the content event delivered for the last chunk of a generation
\* (start, chunk, ..., chunk(is_last)) carries only the chunks that arrived
\* after that start: nothing staged before the start is in it.
C38_NoStaleChunksAfterStart ==
  [][(ChunkEvent(TRUE) /\ cycle'.phase = "chunked" /\ lastOp'.callback # NoHandler)
       => generatedContent' = cleanMarkdownFences(cycle'.text)]_vars

\* The lifecycle flags that are raised
RaisedFlags ==
  (IF isGenerating THEN {"generating"} ELSE {})
    \cup (IF success THEN {"succeeded"} ELSE {})
    \cup (IF appError # NoError THEN {"failed"} ELSE {})

\* C39: at most one of isGenerating = true, success = true and error not
\* null holds in every reachable state.
C39_OneLifecycleValue == Cardinality(RaisedFlags) <= 1

\* ---------------------------------------------------------------------
\* The cursor of App.tsx

\* C40: the cursor never exceeds the length of RawContent, and
\* DisplayedContent is the first cursor characters of RawContent.
C40_CursorWithinRawContent ==
  /\ displayIndexRef <= Len(generatedContent)
  /\ displayContent = Take(generatedContent, displayIndexRef)

=============================================================================
